---- MODULE Spec2Model ----
\* A model of the k81/httpclient request pipeline: request options, the
\* attempt (Client.do), the retry loop around it (Client.Do), the download
\* variant (Client.DownloadFile) and the retry classifiers.
EXTENDS Integers, Sequences, FiniteSets, TLC

VARIABLES
    retrier,    \* Client.retrier: NoRetrier or [backoff, class]
    reqOpts,    \* Client.reqOpts: the default request options
    Timeout,    \* Client.Timeout (0 = not set)
    pc,         \* position of the calling goroutine
    call,       \* arguments of the call in progress
    retries,    \* retrier.Run: the local counter of retries
    slept,      \* retrier.Run: the delays waited so far in this call
    passes,     \* number of invocations of do / of the DownloadFile body
    wire,       \* the requests handed to the transport during this call
    resp,       \* what the transport returned to the last attempt
    applied,    \* the options applied, in order, by the last attempt
    result,     \* named result of Do
    err,        \* named result err of Do / DownloadFile
    file,       \* content of the download destination
    open,       \* number of response bodies that are open
    ctx,        \* Client.ctx: "live", or "done" once the caller cancelled it
    wpc,        \* position of the caller inside JSONClient.Do / XMLClient.Do
    wcall,      \* arguments of the wrapper call in progress
    target,     \* the value the wrapper's result argument points to
    werr,       \* the error the wrapper returns
    doCalls,    \* number of calls of Client.Do made by the wrapper call
    calls,      \* concurrent calls: each goroutine's position in do's option code
    spare,      \* cap(client.reqOpts) - len(client.reqOpts)
    backing,    \* the cells of client.reqOpts' array beyond its length
    rt          \* the LogTransport.RoundTrip in progress

vars == <<retrier, reqOpts, Timeout, pc, call, retries, slept, passes, wire,
          resp, applied, result, err, file, open, ctx, wpc, wcall, target,
          werr, doCalls, calls, spare, backing, rt>>

------------------------------------------------------------------------
\* Bounds of the model

MaxBackoff == 2
MaxOpts == 2
MaxLen == 2

\* DefaultTimeout = 15 * time.Second, in seconds
DefaultTimeout == 15

------------------------------------------------------------------------
\* Values

NoRetrier == [set |-> FALSE, backoff |-> <<>>, class |-> "none"]
NoResp == [kind |-> "none"]
NoFile == [exists |-> FALSE, data |-> <<>>]
\* dest is the state of outFile when DownloadFile is called
NoCall == [kind |-> "none", method |-> "", url |-> [valid |-> TRUE, query |-> <<>>],
           body |-> <<>>, opts |-> <<>>, dest |-> NoFile]
\* A request as a transport receives it: body are the bytes req.Body yields,
\* read how many of them were read from req.Body, and getBody is "nil" when
\* req.GetBody is nil, "ok" when it returns a fresh copy of the body and
\* "err" when it returns an error and no reader
TransportReq(body, getBody) == [body |-> body, read |-> 0, getBody |-> getBody]
NoTransportReq == TransportReq(<<>>, "nil")
\* The value of a result target nobody wrote to
NoValue == [set |-> FALSE, data |-> <<>>]
NoWrapperCall == [codec |-> "none", body |-> "nil", result |-> FALSE, before |-> NoValue]

\* An error value. kind "nil" is the nil error. temporary is the answer of
\* net.Error.Temporary() (FALSE when the error is no net.Error); msg is the
\* text of Error() as a sequence of words; at is the attempt that made it.
NoErr == [kind |-> "nil", temporary |-> FALSE, msg |-> <<>>, code |-> 0, at |-> 0]
Error(kind, temporary, msg, code, at) ==
    [kind |-> kind, temporary |-> temporary, msg |-> msg, code |-> code, at |-> at]

\* strings.Contains(errContent, w) on a message of words
Contains(msg, w) == \E i \in 1..Len(msg) : msg[i] = w

RECURSIVE SeqsUpTo(_, _)
SeqsUpTo(S, n) ==
    IF n = 0 THEN {<<>>}
    ELSE LET shorter == SeqsUpTo(S, n - 1)
         IN shorter \cup {Append(s, x) : s \in {t \in shorter : Len(t) = n - 1}, x \in S}

------------------------------------------------------------------------
\* Requests and request options (RequestOption, SetHeader, SetQuery)

\* textproto.CanonicalMIMEHeaderKey over the header names of the model
RawHeaderKeys == {"x-a", "X-A", "accept-encoding", "Content-Type"}
CanonicalMIMEHeaderKey(k) ==
    CASE k = "x-a" -> "X-A"
      [] k = "X-A" -> "X-A"
      [] k = "accept-encoding" -> "Accept-Encoding"
      [] k = "Content-Type" -> "Content-Type"
HeaderKeys == {CanonicalMIMEHeaderKey(k) : k \in RawHeaderKeys}

\* The query keys of the model, in the order url.Values.Encode sorts them
KeyOrder == <<"a", "b">>
QueryKeys == {KeyOrder[i] : i \in 1..Len(KeyOrder)}

\* One "k=v" segment of URL.RawQuery; ok is FALSE for a segment that
\* url.ParseQuery cannot decode (a bad escape, a semicolon)
Segment(k, v) == [key |-> k, value |-> v, ok |-> TRUE]
BadSegment == [key |-> "%zz", value |-> "", ok |-> FALSE]

\* URL.Query(): the decodable segments, grouped by key; the others are
\* silently discarded
ValuesOf(raw, k) ==
    LET mine == SelectSeq(raw, LAMBDA s : s.ok /\ s.key = k)
    IN [i \in 1..Len(mine) |-> mine[i].value]
Query(raw) == [k \in QueryKeys |-> ValuesOf(raw, k)]

\* url.Values.Encode(): keys sorted, the values of a key in their order
RECURSIVE EncodeFrom(_, _)
EncodeFrom(q, i) ==
    IF i > Len(KeyOrder) THEN <<>>
    ELSE [j \in 1..Len(q[KeyOrder[i]]) |-> Segment(KeyOrder[i], q[KeyOrder[i]][j])]
         \o EncodeFrom(q, i + 1)
Encode(q) == EncodeFrom(q, 1)

\* url.Values.Add for every value of every key of values
AddAll(q, values) == [k \in QueryKeys |-> q[k] \o values[k]]

NoValues == [k \in QueryKeys |-> <<>>]

\* The request options of the model. An option is a pure function of the
\* request: the same option fails, or succeeds, in every attempt.
SetHeaderOpt(key, value) ==
    [op |-> "SetHeader", key |-> key, value |-> value, values |-> NoValues]
SetQueryOpt(values) ==
    [op |-> "SetQuery", key |-> "", value |-> "", values |-> values]
\* a caller's own option that returns an error (a failed signature, a
\* malformed header value)
FailingOpt == [op |-> "Custom", key |-> "", value |-> "", values |-> NoValues]

\* the zero value of a cell no option was written to
NoOpt == [op |-> "none", key |-> "", value |-> "", values |-> NoValues]

\* SetTypeForm(), SetTypeXML() and SetTypeJSON()
SetTypeForm == SetHeaderOpt("Content-Type", "application/x-www-form-urlencoded")
SetTypeXML == SetHeaderOpt("Content-Type", "application/xml; charset=UTF-8")
SetTypeJSON == SetHeaderOpt("Content-Type", "application/json; charset=UTF-8")

Options ==
    { SetHeaderOpt("x-a", "1"), SetHeaderOpt("X-A", "2"),
      SetQueryOpt([NoValues EXCEPT !["a"] = <<"1">>]),
      SetQueryOpt([NoValues EXCEPT !["a"] = <<"2">>]),
      FailingOpt }

\* http.NewRequest(method, url, body)
NewRequest(method, url, body) ==
    [method |-> method, header |-> [k \in HeaderKeys |-> <<>>],
     query |-> url.query, body |-> body]

\* SetHeader: req.Header.Set(key, value)
SetHeader(req, key, value) ==
    [req EXCEPT !.header[CanonicalMIMEHeaderKey(key)] = <<value>>]

\* SetQuery with q.Set in the place of q.Add: the values of a key replace
\* those the query held
SetQueryReplace(req, values) ==
    [req EXCEPT !.query =
        Encode([k \in QueryKeys |->
                  IF values[k] # <<>> THEN <<values[k][Len(values[k])]>>
                  ELSE Query(req.query)[k]])]

\* SetQuery: q := req.URL.Query(); q.Add(k, vv)...; RawQuery = q.Encode()
SetQuery(req, values) ==
    [req EXCEPT !.query = Encode(AddAll(Query(req.query), values))]

\* options applied to a request that is kept from one attempt to the next:
\* in attempt at a SetQuery has added its values at times
RECURSIVE SetQueryTimes(_, _, _)
SetQueryTimes(req, values, n) ==
    IF n = 0 THEN req ELSE SetQueryTimes(SetQuery(req, values), values, n - 1)
ApplyOptAccumulating(req, opt, at) ==
    CASE opt.op = "SetHeader" ->
            [req |-> SetHeader(req, opt.key, opt.value), err |-> NoErr]
      [] opt.op = "SetQuery" ->
            [req |-> SetQueryTimes(req, opt.values, at), err |-> NoErr]
      [] opt.op = "Custom" ->
            [req |-> req, err |-> Error("option", FALSE, <<"bad", "option">>, 0, at)]

\* reqOpt(req): the request after the option and the error it returns
ApplyOpt(req, opt, at) ==
    CASE opt.op = "SetHeader" ->
            [req |-> SetHeader(req, opt.key, opt.value), err |-> NoErr]
      [] opt.op = "SetQuery" ->
            [req |-> SetQuery(req, opt.values), err |-> NoErr]
      [] opt.op = "Custom" ->
            [req |-> req, err |-> Error("option", FALSE, <<"bad", "option">>, 0, at)]

\* for _, reqOpt := range reqOpts { if err = reqOpt(req); err != nil { return } }
\* applied lists the options that were called, the failing one included
RECURSIVE ApplyFrom(_, _, _, _, _)
ApplyFrom(req, opts, i, done, at) ==
    IF i > Len(opts) THEN [req |-> req, err |-> NoErr, applied |-> done]
    ELSE LET r == ApplyOpt(req, opts[i], at)
         IN IF r.err # NoErr
            THEN [req |-> r.req, err |-> r.err, applied |-> Append(done, opts[i])]
            ELSE ApplyFrom(r.req, opts, i + 1, Append(done, opts[i]), at)
\* a loop that goes on after a failing option and reports the first error
RECURSIVE ApplyAllFrom(_, _, _, _, _, _)
ApplyAllFrom(req, opts, i, done, first, at) ==
    IF i > Len(opts) THEN [req |-> req, err |-> first, applied |-> done]
    ELSE LET r == ApplyOpt(req, opts[i], at)
         IN ApplyAllFrom(r.req, opts, i + 1, Append(done, opts[i]),
                         IF first = NoErr THEN r.err ELSE first, at)
ApplyOptsAll(req, opts, at) == ApplyAllFrom(req, opts, 1, <<>>, NoErr, at)

ApplyOpts(req, opts, at) == ApplyFrom(req, opts, 1, <<>>, at)

\* the per-call options put before the defaults
AllOptsReversed(defaults, percall) == percall \o defaults

\* reqOpts = append(client.reqOpts, reqOpts...)
AllOpts(defaults, percall) == defaults \o percall

------------------------------------------------------------------------
\* Response bodies and gzip

Byte == {0, 1}
Payloads == SeqsUpTo(Byte, MaxLen)

\* The gzip stream of X: a header, the deflated bytes, a trailer holding a
\* checksum and the size of X
GzipHeader == <<31, 139>>
Deflate(X) == [i \in 1..Len(X) |-> 1 - X[i]]
Inflate(Y) == [i \in 1..Len(Y) |-> 1 - Y[i]]
RECURSIVE Sum(_)
Sum(X) == IF X = <<>> THEN 0 ELSE Head(X) + Sum(Tail(X))
Crc(X) == Sum(X) % 2
Compress(X) == GzipHeader \o Deflate(X) \o <<Crc(X), Len(X)>>

\* gzip.NewReader(resp.Body) reads the header
HasGzipHeader(body) ==
    Len(body) >= Len(GzipHeader) /\ SubSeq(body, 1, Len(GzipHeader)) = GzipHeader
\* ioutil.ReadAll(reader) on a gzip reader: the inflated bytes, or an error
\* when the stream is truncated or its trailer does not match
GzipRead(body) ==
    LET rest == SubSeq(body, Len(GzipHeader) + 1, Len(body))
        data == Inflate(SubSeq(rest, 1, Len(rest) - 2))
    IN IF Len(rest) < 2 THEN [ok |-> FALSE, data |-> <<>>]
       ELSE IF rest[Len(rest) - 1] # Crc(data) \/ rest[Len(rest)] # Len(data)
            THEN [ok |-> FALSE, data |-> <<>>]
            ELSE [ok |-> TRUE, data |-> data]

\* What client.Client.Do(req) returns: a transport error or a response
TransportError(temporary, msg) ==
    [kind |-> "error", temporary |-> temporary, msg |-> msg, StatusCode |-> 0,
     Status |-> <<>>, encoding |-> "", body |-> <<>>, readErr |-> FALSE]
Response(code, status, encoding, body, readErr) ==
    [kind |-> "response", temporary |-> FALSE, msg |-> <<>>, StatusCode |-> code,
     Status |-> status, encoding |-> encoding, body |-> body, readErr |-> readErr]

\* HTTP2RetriableError
HTTP2RetriableError == <<"CONNECT_ERROR", "PROTOCOL_ERROR", "STREAM_CLOSED">>

\* (*HTTPError).Error(): the status code and the status text
HTTPErrorText(code, status) == <<"http", "error">> \o status

------------------------------------------------------------------------
\* Client.do: one attempt

\* What one run of do (or of the DownloadFile body) leaves behind. The
\* transport hands a response over with its body open.
Attempt(res, e, app, sent, rsp, tmo, f) ==
    [result |-> res, err |-> e, applied |-> app, sent |-> sent, resp |-> rsp,
     Timeout |-> tmo, file |-> f, open |-> IF rsp.kind = "response" THEN 1 ELSE 0]

\* a Close that runs on the success path only
DeferCloseOnSuccess(a) == IF a.err = NoErr THEN [a EXCEPT !.open = 0] ELSE a

\* defer resp.Body.Close(): the body is closed when the attempt returns
DeferClose(a) == [a EXCEPT !.open = 0]

\* a status check that lets 300 through
BadStatusAbove(code) == code < 200 \/ code > 300

\* resp.StatusCode < 200 || resp.StatusCode >= 300
BadStatus(code) == code < 200 \/ code >= 300

\* if client.Timeout == 0 { client.Timeout = DefaultTimeout }
TimeoutAfter(tmo) == IF tmo = 0 THEN DefaultTimeout ELSE tmo

\* an attempt that hands its request to the transport twice
SendTwice(req) == <<req, req>>

\* resp, err = client.Client.Do(req): the requests handed to the transport
Send(req) == <<req>>

\* a read that never looks at Content-Encoding
ReadBodyPlain(out, at) ==
    IF out.readErr
    THEN [result |-> <<>>, err |-> Error("read", FALSE, <<"unexpected", "EOF">>, 0, at)]
    ELSE [result |-> out.body, err |-> NoErr]

\* a read that returns the bytes it got together with the error
ReadBodyPartial(out, at) ==
    IF out.readErr
    THEN [result |-> <<>>, err |-> Error("read", FALSE, <<"unexpected", "EOF">>, 0, at)]
    ELSE IF out.encoding # "gzip" THEN [result |-> out.body, err |-> NoErr]
    ELSE IF ~HasGzipHeader(out.body)
    THEN [result |-> <<>>, err |-> Error("gzip", FALSE, <<"gzip", "invalid", "header">>, 0, at)]
    ELSE IF GzipRead(out.body).ok THEN [result |-> GzipRead(out.body).data, err |-> NoErr]
    ELSE [result |-> Inflate(SubSeq(out.body, Len(GzipHeader) + 1, Len(out.body))),
          err |-> Error("gzip", FALSE, <<"gzip", "invalid", "checksum">>, 0, at)]

\* The response body as do returns it: the switch on Content-Encoding, the
\* gzip reader and ioutil.ReadAll
ReadBody(out, at) ==
    IF out.encoding = "gzip"
    THEN IF out.readErr
         THEN [result |-> <<>>, err |-> Error("read", FALSE, <<"unexpected", "EOF">>, 0, at)]
         ELSE IF ~HasGzipHeader(out.body)
         THEN [result |-> <<>>, err |-> Error("gzip", FALSE, <<"gzip", "invalid", "header">>, 0, at)]
         ELSE IF ~GzipRead(out.body).ok
         THEN [result |-> <<>>, err |-> Error("gzip", FALSE, <<"gzip", "invalid", "checksum">>, 0, at)]
         ELSE [result |-> GzipRead(out.body).data, err |-> NoErr]
    ELSE IF out.readErr
         THEN [result |-> <<>>, err |-> Error("read", FALSE, <<"unexpected", "EOF">>, 0, at)]
         ELSE [result |-> out.body, err |-> NoErr]

\* do(method, url, body, reqOpts...) against a transport that answers out;
\* at numbers the attempt
do(defaults, tmo, c, out, at, f) ==
    IF ~c.url.valid
    THEN Attempt(<<>>, Error("url", FALSE, <<"parse", "error">>, 0, at), <<>>, <<>>,
                 NoResp, tmo, f)
    ELSE
    LET o == ApplyOpts(NewRequest(c.method, c.url, c.body), AllOpts(defaults, c.opts), at)
    IN  IF o.err # NoErr
        THEN Attempt(<<>>, o.err, o.applied, <<>>, NoResp, tmo, f)
        ELSE IF out.kind = "error"
        THEN Attempt(<<>>, Error("transport", out.temporary, out.msg, 0, at),
                     o.applied, Send(o.req), out, TimeoutAfter(tmo), f)
        ELSE DeferClose(
             IF BadStatus(out.StatusCode)
             THEN Attempt(<<>>, Error("http", FALSE,
                                      HTTPErrorText(out.StatusCode, out.Status),
                                      out.StatusCode, at),
                          o.applied, Send(o.req), out, TimeoutAfter(tmo), f)
             ELSE LET b == ReadBody(out, at)
                  IN Attempt(b.result, b.err, o.applied, Send(o.req), out,
                             TimeoutAfter(tmo), f))

\* a copy that stops one byte short
CopyShort(body) == [exists |-> TRUE, data |-> SubSeq(body, 1, Len(body) - 1)]

\* out, err := os.Create(outFile); io.Copy(out, resp.Body): the file after
\* a copy that met no error
Copy(body) == [exists |-> TRUE, data |-> body]

\* The body of DownloadFile: the same request, sent once, the response
\* body copied to the destination. create tells whether os.Create succeeds.
DownloadFileBody(defaults, tmo, c, out, at, f, create) ==
    IF ~c.url.valid
    THEN Attempt(<<>>, Error("url", FALSE, <<"parse", "error">>, 0, at), <<>>, <<>>,
                 NoResp, tmo, f)
    ELSE
    LET o == ApplyOpts(NewRequest("GET", c.url, <<>>), AllOpts(defaults, c.opts), at)
    IN  IF o.err # NoErr
        THEN Attempt(<<>>, o.err, o.applied, <<>>, NoResp, tmo, f)
        ELSE IF out.kind = "error"
        THEN Attempt(<<>>, Error("transport", out.temporary, out.msg, 0, at),
                     o.applied, Send(o.req), out, TimeoutAfter(tmo), f)
        ELSE DeferClose(
             IF BadStatus(out.StatusCode)
             THEN Attempt(<<>>, Error("http", FALSE,
                                      HTTPErrorText(out.StatusCode, out.Status),
                                      out.StatusCode, at),
                          o.applied, Send(o.req), out, TimeoutAfter(tmo), f)
             ELSE IF ~create
             THEN Attempt(<<>>, Error("create", FALSE, <<"permission", "denied">>, 0, at),
                          o.applied, Send(o.req), out, TimeoutAfter(tmo), f)
             ELSE IF out.readErr
             THEN Attempt(<<>>, Error("read", FALSE, <<"unexpected", "EOF">>, 0, at),
                          o.applied, Send(o.req), out, TimeoutAfter(tmo),
                          [exists |-> TRUE, data |-> <<>>])
             ELSE Attempt(<<>>, NoErr, o.applied, Send(o.req), out, TimeoutAfter(tmo),
                          Copy(out.body)))

------------------------------------------------------------------------
\* Retry classifiers

\* a classifier that forgets the temporary errors
RetryClassifier_ClassifyNoTemporary(e) ==
    IF e = NoErr THEN "Succeed"
    ELSE IF \E i \in 1..Len(HTTP2RetriableError) : Contains(e.msg, HTTP2RetriableError[i])
         THEN "Retry"
         ELSE "Fail"

\* a classifier whose loop over HTTP2RetriableError stops after its first
\* entry
RetryClassifier_ClassifyFirstOnly(e) ==
    IF e = NoErr THEN "Succeed"
    ELSE IF e.temporary THEN "Retry"
    ELSE IF Contains(e.msg, HTTP2RetriableError[1]) THEN "Retry"
         ELSE "Fail"

\* (*RetryClassifier).Classify, the DefaultRetryClassifier of SetRetry
RetryClassifier_Classify(e) ==
    IF e = NoErr THEN "Succeed"
    ELSE IF e.temporary THEN "Retry"
    ELSE IF \E i \in 1..Len(HTTP2RetriableError) : Contains(e.msg, HTTP2RetriableError[i])
         THEN "Retry"
         ELSE "Fail"

\* (*Retry).Classify
Retry_Classify(e) ==
    IF e = NoErr THEN "Succeed"
    ELSE IF e.temporary THEN "Retry"
    ELSE "Fail"

\* (*retryClassifer).Classify, the DefaultRetryClassifer
retryClassifer_Classify(e) ==
    IF e = NoErr THEN "Succeed"
    ELSE IF e.temporary THEN "Retry"
    ELSE "Fail"

\* retrier.DefaultClassifier, the classifier of retrier.New(backoff, nil):
\* Retry for every error
DefaultClassifier_Classify(e) ==
    IF e = NoErr THEN "Succeed" ELSE "Retry"

Classes == {"RetryClassifier", "Retry", "DefaultClassifier"}
Classify(class, e) ==
    CASE class = "RetryClassifier" -> RetryClassifier_Classify(e)
      [] class = "Retry" -> Retry_Classify(e)
      [] class = "DefaultClassifier" -> DefaultClassifier_Classify(e)

\* retrier.New(backoff, class)
NewRetrier(backoff, class) == [set |-> TRUE, backoff |-> backoff, class |-> class]
\* The backoff sequences of the model: n delays of 1, 2, ... units
Backoffs == {[i \in 1..n |-> i] : n \in 0..MaxBackoff}
Retriers == {NewRetrier(b, cl) : b \in Backoffs, cl \in Classes}

------------------------------------------------------------------------
\* The client and its calls

\* The URLs of the model: one http.NewRequest rejects, and one whose query
\* holds a pair and a segment that cannot be decoded
BadURL == [valid |-> FALSE, query |-> <<>>]
QueryURL == [valid |-> TRUE, query |-> <<Segment("a", "0"), BadSegment>>]
URLs == {BadURL, QueryURL}
\* The state of a download destination before the call
Files == {NoFile, [exists |-> TRUE, data |-> <<0, 0>>]}

\* Option lists over the options S
OptLists(S) == SeqsUpTo(S, MaxOpts)

\* The goroutines that call the client at the same time
Goroutines == {"1", "2"}

\* A goroutine that is not inside a call: opts are the call's own options,
\* view tells whether its local slice shares the array of client.reqOpts
\* ("shared") or has an array of its own ("own", whose content is list), n
\* is the length of the local slice and applied the options applied so far
NoGoCall == [pc |-> "idle", opts |-> <<>>, view |-> "own", list |-> <<>>,
             n |-> 0, applied |-> <<>>]

\* No RoundTrip in progress: req is the request received, sent the requests
\* handed to the wrapped transport, out what the wrapped transport returned
\* and ret what RoundTrip returned
NoRoundTrip == [pc |-> "idle", req |-> NoTransportReq, sent |-> <<>>,
                out |-> NoResp, ret |-> NoResp]

Init ==
    /\ retrier = NoRetrier
    /\ reqOpts = <<>>
    /\ Timeout = 0
    /\ pc = "idle"
    /\ call = NoCall
    /\ retries = 0
    /\ slept = <<>>
    /\ passes = 0
    /\ wire = <<>>
    /\ resp = NoResp
    /\ applied = <<>>
    /\ result = <<>>
    /\ err = NoErr
    /\ file = NoFile
    /\ open = 0
    /\ ctx = "live"
    /\ wpc = "idle"
    /\ wcall = NoWrapperCall
    /\ target = NoValue
    /\ werr = NoErr
    /\ doCalls = 0
    /\ calls = [g \in Goroutines |-> NoGoCall]
    /\ spare = 0
    /\ backing = <<>>
    /\ rt = NoRoundTrip

\* The state of the concurrent calls and of the default list's array
concVars == <<calls, spare, backing>>

\* The state of a wrapper call
codecVars == <<wpc, wcall, target, werr, doCalls>>

callVars == <<call, retries, slept, passes, wire, resp, applied, result, err, file>>

\* The client is configured between calls, never during one (the caller's
\* duty: the code does not synchronise its configuration).

\* The capacity of s[:len] for a slice s of length len and capacity cap
SliceCapKept(len, cap) == cap

\* The capacity of reqOpts[:len(reqOpts):len(reqOpts)]
SliceCap(len, cap) == len

\* SetDefaultReqOpts(reqOpts...): the caller's slice has any capacity; none
\* of it beyond the length is kept
SetDefaultReqOpts(opts) ==
    /\ pc = "idle"
    /\ \A g \in Goroutines : calls[g].pc = "idle"
    /\ reqOpts' = opts
    /\ \E cap \in Len(opts)..(Len(opts) + MaxOpts) :
           spare' = SliceCap(Len(opts), cap) - Len(opts)
    /\ backing' = [i \in 1..spare' |-> NoOpt]
    /\ UNCHANGED <<retrier, Timeout, pc, callVars, open, ctx, codecVars, calls, rt>>

\* SetRetry(backoff)
SetRetry(backoff) ==
    /\ pc = "idle"
    /\ retrier' = NewRetrier(backoff, "RetryClassifier")
    /\ UNCHANGED <<reqOpts, Timeout, pc, callVars, open, ctx, codecVars, concVars, rt>>

\* SetRetrier(r)
SetRetrier(r) ==
    /\ pc = "idle"
    /\ retrier' = r
    /\ UNCHANGED <<reqOpts, Timeout, pc, callVars, open, ctx, codecVars, concVars, rt>>

\* A call starts with fresh locals; the defaults and the per-call options
\* hold at most MaxOpts options together
Enter(c, to, f) ==
    /\ Len(reqOpts) + Len(c.opts) <= MaxOpts
    /\ call' = c
    /\ pc' = to
    /\ retries' = 0
    /\ slept' = <<>>
    /\ passes' = 0
    /\ wire' = <<>>
    /\ resp' = NoResp
    /\ applied' = <<>>
    /\ result' = <<>>
    /\ err' = NoErr
    /\ file' = f
    /\ UNCHANGED <<retrier, reqOpts, Timeout, open, ctx, concVars, rt>>

\* Do that never looks at the retrier
HasRetrierNever(r) == FALSE

\* if client.retrier == nil
HasRetrier(r) == r.set

\* Do(method, url, body, reqOpts...)
Do(method, url, body, opts) ==
    /\ pc = "idle"
    /\ Enter([kind |-> "Do", method |-> method, url |-> url, body |-> body,
              opts |-> opts, dest |-> NoFile],
             IF HasRetrier(retrier) THEN "work" ELSE "do", NoFile)
    /\ UNCHANGED codecVars

\* The closure Do hands to retrier.Run: it assigns the result and the error
\* of do to Do's named results and returns the error
Closure(a) == [result |-> a.result, err |-> a.err, ret |-> a.err]

\* One run of do leaves its results in the locals of the call
Ran(a) ==
    /\ applied' = a.applied
    /\ wire' = wire \o a.sent
    /\ resp' = a.resp
    /\ Timeout' = a.Timeout
    /\ file' = a.file
    /\ open' = open + a.open
    /\ passes' = passes + 1

\* Do without a retrier: return client.do(method, url, body, reqOpts...)
DoDirect(outs) ==
    /\ pc = "do"
    /\ \E out \in outs :
          LET a == do(reqOpts, Timeout, call, out, passes + 1, file)
          IN Ran(a) /\ result' = a.result /\ err' = a.err
    /\ pc' = "done"
    /\ UNCHANGED <<retrier, reqOpts, call, retries, slept, ctx, codecVars, concVars, rt>>

\* retrier.Run: if retries >= len(r.backoff) { return ret }
BudgetLeft(n, backoff) == n < Len(backoff)

\* a Do that starts the next attempt at once, without the backoff wait
WorkNoSleep(outs) ==
    /\ pc = "work"
    /\ \E out \in outs :
          LET a == do(reqOpts, Timeout, call, out, passes + 1, file)
              again == Classify(retrier.class, Closure(a).ret) = "Retry"
                         /\ BudgetLeft(retries, retrier.backoff)
          IN /\ Ran(a)
             /\ result' = Closure(a).result
             /\ err' = IF again THEN Closure(a).err ELSE Closure(a).ret
             /\ pc' = IF again THEN "work" ELSE "done"
             /\ retries' = IF again THEN retries + 1 ELSE retries
    /\ UNCHANGED <<retrier, reqOpts, call, slept, ctx, codecVars, concVars, rt>>

\* a Do that runs the retrier again for as long as it returns an error
WorkRestart(outs) ==
    /\ pc = "work"
    /\ \E out \in outs :
          LET a == do(reqOpts, Timeout, call, out, passes + 1, file)
              again == Classify(retrier.class, Closure(a).ret) = "Retry"
                         /\ BudgetLeft(retries, retrier.backoff)
          IN /\ Ran(a)
             /\ result' = Closure(a).result
             /\ err' = IF again THEN Closure(a).err ELSE Closure(a).ret
             /\ pc' = IF again THEN "sleep"
                      ELSE IF Closure(a).ret # NoErr THEN "work" ELSE "done"
    /\ UNCHANGED <<retrier, reqOpts, call, retries, slept, ctx, codecVars, concVars, rt>>

\* retrier.Run, one turn of its loop: ret := work(), then the switch on
\* r.class.Classify(ret): Succeed and Fail return ret, and so does Retry
\* with the budget spent; Do assigns what Run returns to err
Work(outs) ==
    /\ pc = "work"
    /\ \E out \in outs :
          LET a == do(reqOpts, Timeout, call, out, passes + 1, file)
              again == Classify(retrier.class, Closure(a).ret) = "Retry"
                         /\ BudgetLeft(retries, retrier.backoff)
          IN /\ Ran(a)
             /\ result' = Closure(a).result
             /\ err' = IF again THEN Closure(a).err ELSE Closure(a).ret
             /\ pc' = IF again THEN "sleep" ELSE "done"
    /\ UNCHANGED <<retrier, reqOpts, call, retries, slept, ctx, codecVars, concVars, rt>>

\* retrier.Run: time.Sleep(r.calcSleep(retries)); retries++
RunSleep ==
    /\ pc = "sleep"
    /\ slept' = Append(slept, retrier.backoff[retries + 1])
    /\ retries' = retries + 1
    /\ pc' = "work"
    /\ UNCHANGED <<retrier, reqOpts, Timeout, call, passes, wire, resp, applied,
                   result, err, file, open, ctx, codecVars, concVars, rt>>

\* DownloadFile(url, outFile, reqOpts...) with the destination in state f
DownloadFile(url, opts, f) ==
    /\ pc = "idle"
    /\ Enter([kind |-> "DownloadFile", method |-> "GET", url |-> url, body |-> <<>>,
              opts |-> opts, dest |-> f], "download", f)
    /\ UNCHANGED codecVars

Download(outs) ==
    /\ pc = "download"
    /\ \E out \in outs, create \in BOOLEAN :
          LET a == DownloadFileBody(reqOpts, Timeout, call, out, passes + 1, file, create)
          IN Ran(a) /\ result' = a.result /\ err' = a.err
    /\ pc' = "done"
    /\ UNCHANGED <<retrier, reqOpts, call, retries, slept, ctx, codecVars, concVars, rt>>

------------------------------------------------------------------------
\* The codec wrappers: JSONClient.Do and XMLClient.Do

\* The request bodies a caller hands to a wrapper: nil, a value the codec
\* encodes, and a value it rejects (a channel, a function)
WrapperBodies == {"nil", "value", "chan"}

\* json.Marshal(body) / xml.Marshal(body)
Marshal(codec, body) ==
    CASE body = "value" -> [ok |-> TRUE, data |-> IF codec = "json" THEN <<1>> ELSE <<0>>]
      [] body = "chan" -> [ok |-> FALSE, data |-> <<>>]

\* json.Unmarshal(data, result) / xml.Unmarshal(data, result) on a target
\* holding old: a document starts with 1; a 0 after the first byte is a
\* field of the wrong type, met after the fields before it were stored
Unmarshal(codec, data, old, at) ==
    IF data = <<>> \/ data[1] = 0
    THEN [value |-> old, err |-> Error("unmarshal", FALSE, <<codec, "syntax", "error">>, 0, at)]
    ELSE IF \E i \in 2..Len(data) : data[i] = 0
    THEN [value |-> [set |-> TRUE, data |-> <<data[1]>>],
          err |-> Error("unmarshal", FALSE, <<codec, "type", "error">>, 0, at)]
    ELSE [value |-> [set |-> TRUE, data |-> data], err |-> NoErr]

\* a wrapper that goes on after a failed Marshal
MarshalFailedIgnored(body, m) == FALSE

\* if body != nil { if bodyData, err = Marshal(body); err != nil { return err } }
MarshalFailed(body, m) == body # "nil" /\ ~m.ok

\* a wrapper that decodes an empty response body too
ShouldUnmarshalAlways(res, resultStr) == res

\* if result != nil && resultStr != ""
ShouldUnmarshal(res, resultStr) == res /\ resultStr # <<>>

\* The Content-Type option the wrapper appends to the caller's options
SetType(codec) == IF codec = "json" THEN SetTypeJSON ELSE SetTypeXML

\* a wrapper that puts its Content-Type option before the caller's options
WithTypeFirst(opts, codec) == <<SetType(codec)>> \o opts

\* reqOpts = append(reqOpts, SetTypeJSON())
WithType(opts, codec) == Append(opts, SetType(codec))

\* The wrapper's Do up to its call of Client.Do: the body is marshalled
\* (a nil body gives the empty string), the Content-Type option is
\* appended, and Client.Do is entered; a failed Marshal returns at once
WrapperEnter(codec, method, url, body, res, before, opts) ==
    LET m == IF body = "nil" THEN [ok |-> TRUE, data |-> <<>>] ELSE Marshal(codec, body)
    IN /\ wcall' = [codec |-> codec, body |-> body, result |-> res, before |-> before]
       /\ target' = before
       /\ IF MarshalFailed(body, m)
          THEN /\ werr' = Error("marshal", FALSE, <<codec, "unsupported", "type">>, 0, 0)
               /\ wpc' = "done"
               /\ doCalls' = 0
               /\ UNCHANGED <<retrier, reqOpts, Timeout, pc, callVars, open, ctx,
                              concVars, rt>>
          ELSE /\ werr' = NoErr
               /\ wpc' = "called"
               /\ doCalls' = 1
               /\ Enter([kind |-> "Do", method |-> method, url |-> url,
                         body |-> m.data, opts |-> WithType(opts, codec),
                         dest |-> NoFile],
                        IF HasRetrier(retrier) THEN "work" ELSE "do", NoFile)

\* (*JSONClient).Do(method, url, body, result, reqOpts...)
JSONClient_Do(method, url, body, res, before, opts) ==
    /\ pc = "idle" /\ wpc = "idle"
    /\ WrapperEnter("json", method, url, body, res, before, opts)

\* (*XMLClient).Do(method, url, body, result, reqOpts...)
XMLClient_Do(method, url, body, res, before, opts) ==
    /\ pc = "idle" /\ wpc = "idle"
    /\ WrapperEnter("xml", method, url, body, res, before, opts)

\* Client.Do has returned to the wrapper: its error is returned as it is;
\* otherwise the result is unmarshalled when there is a target and a
\* non-empty body
WrapperDecode ==
    /\ wpc = "called" /\ pc = "done"
    /\ IF err # NoErr
       THEN werr' = err /\ target' = target
       ELSE IF ShouldUnmarshal(wcall.result, result)
       THEN LET u == Unmarshal(wcall.codec, result, target, passes)
            IN werr' = u.err /\ target' = u.value
       ELSE werr' = NoErr /\ target' = target
    /\ wpc' = "done"
    /\ UNCHANGED <<retrier, reqOpts, Timeout, pc, callVars, open, ctx, wcall, doCalls,
                   concVars, rt>>

\* The wrapper returns to its caller
WrapperReturn ==
    /\ wpc = "done"
    /\ wpc' = "idle"
    /\ wcall' = NoWrapperCall
    /\ target' = NoValue
    /\ werr' = NoErr
    /\ doCalls' = 0
    /\ pc' = "idle"
    /\ call' = NoCall
    /\ retries' = 0
    /\ slept' = <<>>
    /\ passes' = 0
    /\ wire' = <<>>
    /\ resp' = NoResp
    /\ applied' = <<>>
    /\ result' = <<>>
    /\ err' = NoErr
    /\ file' = NoFile
    /\ UNCHANGED <<retrier, reqOpts, Timeout, open, ctx, concVars, rt>>

\* The caller cancels the context it gave to New while a call is between
\* two steps: before an attempt, or in a backoff sleep. The client keeps
\* the context for its log events only: the request is built by
\* http.NewRequest and the sleep is a time.Sleep.
Cancel ==
    /\ pc \in {"do", "work", "sleep"}
    /\ ctx = "live"
    /\ ctx' = "done"
    /\ UNCHANGED <<retrier, reqOpts, Timeout, pc, callVars, open, codecVars,
                   concVars, rt>>

\* The call returns to its caller
Return ==
    /\ pc = "done"
    /\ pc' = "idle"
    /\ call' = NoCall
    /\ retries' = 0
    /\ slept' = <<>>
    /\ passes' = 0
    /\ wire' = <<>>
    /\ resp' = NoResp
    /\ applied' = <<>>
    /\ result' = <<>>
    /\ err' = NoErr
    /\ file' = NoFile
    /\ UNCHANGED <<retrier, reqOpts, Timeout, open, ctx, codecVars, concVars, rt>>

------------------------------------------------------------------------
\* Concurrent calls: the option code of do (append, then the loop over the
\* options), one step at a time for each goroutine

\* A goroutine enters do with its own options
GoCall(g, opts) ==
    /\ calls[g].pc = "idle"
    /\ calls' = [calls EXCEPT ![g] = [NoGoCall EXCEPT !.pc = "append", !.opts = opts]]
    /\ UNCHANGED <<retrier, reqOpts, Timeout, pc, callVars, open, ctx, codecVars,
                   spare, backing, rt>>

\* reqOpts = append(client.reqOpts, reqOpts...): append writes behind the
\* length of client.reqOpts when the capacity holds the new elements, and
\* into a new array otherwise
GoAppend(g) ==
    LET c == calls[g]
        k == Len(c.opts)
    IN /\ c.pc = "append"
       /\ IF k <= spare
          THEN /\ backing' = [i \in 1..Len(backing) |->
                                 IF i <= k THEN c.opts[i] ELSE backing[i]]
               /\ calls' = [calls EXCEPT ![g] =
                              [c EXCEPT !.pc = "range", !.view = "shared",
                                        !.n = Len(reqOpts) + k]]
          ELSE /\ backing' = backing
               /\ calls' = [calls EXCEPT ![g] =
                              [c EXCEPT !.pc = "range", !.view = "own",
                                        !.list = reqOpts \o c.opts,
                                        !.n = Len(reqOpts) + k]]
       /\ UNCHANGED <<retrier, reqOpts, Timeout, pc, callVars, open, ctx, codecVars,
                      spare, rt>>

\* The i-th element of a goroutine's local slice
Cell(c, i) == IF c.view = "own" THEN c.list[i] ELSE (reqOpts \o backing)[i]

\* for _, reqOpt := range reqOpts { reqOpt(req) }: one iteration, or the
\* end of the loop
GoRange(g) ==
    LET c == calls[g]
        i == Len(c.applied) + 1
    IN /\ c.pc = "range"
       /\ calls' = [calls EXCEPT ![g] =
                      IF i > c.n THEN [c EXCEPT !.pc = "done"]
                      ELSE [c EXCEPT !.applied = Append(c.applied, Cell(c, i))]]
       /\ UNCHANGED <<retrier, reqOpts, Timeout, pc, callVars, open, ctx, codecVars,
                      spare, backing, rt>>

\* The call returns
GoReturn(g) ==
    /\ calls[g].pc = "done"
    /\ calls' = [calls EXCEPT ![g] = NoGoCall]
    /\ UNCHANGED <<retrier, reqOpts, Timeout, pc, callVars, open, ctx, codecVars,
                   spare, backing, rt>>

------------------------------------------------------------------------
\* LogTransport

\* LogTransport.RoundTrip(req): body, _ := req.GetBody() calls a nil
\* function when the request has no GetBody, and ioutil.ReadAll(body) reads
\* from a nil reader when GetBody returned an error: both panic. Otherwise
\* the copy GetBody made is read and logged, req.Body is left alone, and
\* the wrapped transport gets req and answers out, which is returned.
LogTransport_RoundTrip(req, out) ==
    /\ rt.pc = "idle"
    /\ rt' = IF req.getBody = "ok"
             THEN [pc |-> "done", req |-> req, sent |-> <<req>>, out |-> out,
                   ret |-> out]
             ELSE [pc |-> "panic", req |-> req, sent |-> <<>>, out |-> NoResp,
                   ret |-> NoResp]
    /\ UNCHANGED <<retrier, reqOpts, Timeout, pc, callVars, open, ctx, codecVars,
                   concVars>>

\* The caller has the answer of RoundTrip
RoundTripReturn ==
    /\ rt.pc = "done"
    /\ rt' = NoRoundTrip
    /\ UNCHANGED <<retrier, reqOpts, Timeout, pc, callVars, open, ctx, codecVars,
                   concVars>>

------------------------------------------------------------------------
\* Spec: the retry pipeline. Every retrier, the answers of the transport
\* that decide a retry, option lists over one header option and one
\* failing option.

PipelineOptions == {SetHeaderOpt("x-a", "1"), FailingOpt}
PipelineOutcomes ==
    { TransportError(TRUE, <<"i/o", "timeout">>),
      TransportError(FALSE, <<"connection", "refused">>),
      TransportError(FALSE, <<"stream", "error", "PROTOCOL_ERROR">>) }
    \cup { Response(c, <<"Bad">>, "", <<>>, FALSE) : c \in {199, 300} }
    \cup { Response(500, st, "", <<>>, FALSE) : st \in {<<"Bad">>, <<"STREAM_CLOSED">>} }
    \cup { Response(c, <<"OK">>, "", b, FALSE) : c \in {200, 299}, b \in {<<>>, <<1>>} }
    \cup { Response(200, <<"OK">>, "gzip", b, FALSE) :
             b \in {Compress(<<1>>), <<1>>, GzipHeader \o <<0, 0, 0>>} }
    \cup { Response(200, <<"OK">>, "", <<>>, TRUE) }

Next ==
    \/ \E opts \in OptLists(PipelineOptions) : SetDefaultReqOpts(opts)
    \/ \E b \in Backoffs : SetRetry(b)
    \/ \E r \in Retriers \cup {NoRetrier} : SetRetrier(r)
    \/ \E u \in URLs, opts \in OptLists(PipelineOptions) : Do("POST", u, <<1>>, opts)
    \/ DoDirect(PipelineOutcomes)
    \/ Work(PipelineOutcomes)
    \/ RunSleep
    \/ \E u \in URLs, opts \in OptLists(PipelineOptions), f \in Files : DownloadFile(u, opts, f)
    \/ Download(PipelineOutcomes)
    \/ Return

Spec == Init /\ [][Next]_vars

------------------------------------------------------------------------
\* Claims about the retry pipeline, checked under Spec

\* The body do returns for a 2xx response that could be read
Decoded(r, res) ==
    IF r.encoding = "gzip" THEN r.body = Compress(res) ELSE r.body = res

\* C1: under a classifier that returns Retry for every error and a backoff
\* sequence of length N, a Do call whose every attempt fails makes exactly
\* N+1 attempts and returns the error of the last attempt.
C1_AlwaysRetryExhausts ==
    (pc = "done" /\ call.kind = "Do" /\ retrier.set
        /\ retrier.class = "DefaultClassifier" /\ err # NoErr)
    => /\ passes = Len(retrier.backoff) + 1
       /\ retries = Len(retrier.backoff)
       /\ err.at = passes
       /\ (err.kind \in {"transport", "http", "read", "gzip"} => Len(wire) = passes)

C1_Witness ==
    /\ pc = "done" /\ call.kind = "Do" /\ retrier.class = "DefaultClassifier"
    /\ Len(retrier.backoff) = 2 /\ passes = 3 /\ Len(wire) = 3
    /\ err.kind = "transport" /\ err.at = 3

\* C2: without a retrier every Do call makes exactly one attempt and
\* returns the outcome of that attempt, whatever the failure.
C2_NoRetrierOneAttempt ==
    (pc = "done" /\ call.kind = "Do" /\ ~retrier.set)
    => /\ passes = 1 /\ retries = 0 /\ slept = <<>>
       /\ Len(wire) = (IF resp = NoResp THEN 0 ELSE 1)
       /\ (resp.kind = "error" =>
             /\ result = <<>> /\ err.kind = "transport"
             /\ err.temporary = resp.temporary /\ err.msg = resp.msg)
       /\ (resp.kind = "response" /\ resp.StatusCode \notin 200..299 =>
             result = <<>> /\ err.kind = "http" /\ err.code = resp.StatusCode)
       /\ (resp.kind = "response" /\ resp.StatusCode \in 200..299 /\ resp.readErr =>
             result = <<>> /\ err.kind = "read")
       /\ (resp.kind = "response" /\ resp.StatusCode \in 200..299 /\ ~resp.readErr
             /\ resp.encoding = "" => result = resp.body /\ err = NoErr)

C2_Witness ==
    /\ pc = "done" /\ call.kind = "Do" /\ ~retrier.set
    /\ passes = 1 /\ Len(wire) = 1
    /\ err.kind = "transport" /\ err.temporary

\* C3: with the classifier SetRetry installs, a Do call whose first attempt
\* gets a status outside 200-299 ends after that attempt with an HTTPError
\* of the observed status code and text.
C3_BadStatusNeverRetried ==
    (call.kind = "Do" /\ retrier.set /\ retrier.class = "RetryClassifier"
        /\ passes = 1 /\ pc \in {"sleep", "done"}
        /\ resp.kind = "response" /\ resp.StatusCode \notin 200..299)
    => /\ pc = "done"
       /\ err.kind = "http" /\ err.code = resp.StatusCode
       /\ err.msg = HTTPErrorText(resp.StatusCode, resp.Status)

\* C4: under a classifier that retries temporary errors and a backoff
\* sequence of length N, the call goes on after each temporary failure while
\* delays are left and stops at the first success: k temporary failures
\* (k <= N) and a 2xx answer give the body of attempt k+1, a nil error and
\* exactly k+1 attempts.
C4_TemporaryThenSuccess ==
    (call.kind = "Do" /\ retrier.set /\ retrier.class \in {"RetryClassifier", "Retry"})
    => /\ (pc = "sleep" => err # NoErr /\ retries < Len(retrier.backoff))
       /\ (pc \in {"sleep", "done"} => passes = retries + 1)
       /\ (pc = "work" => passes = retries)
       /\ Len(slept) = retries
       /\ (pc = "done" /\ err.kind = "transport" /\ err.temporary
             => passes = Len(retrier.backoff) + 1)
       /\ (pc = "done" /\ err = NoErr =>
             /\ resp.kind = "response" /\ resp.StatusCode \in 200..299
             /\ Decoded(resp, result)
             /\ Len(wire) = passes)

C4_Witness ==
    /\ pc = "done" /\ call.kind = "Do" /\ retrier.class = "Retry"
    /\ Len(retrier.backoff) = 2 /\ passes = 3 /\ Len(wire) = 3
    /\ err = NoErr /\ result = <<1>>

\* The place of the first failing option of a list
FirstFailing(opts) ==
    CHOOSE i \in 1..Len(opts) :
        opts[i].op = "Custom" /\ \A j \in 1..(i - 1) : opts[j].op # "Custom"

\* C5: when an option of the combined sequence (defaults, then per-call)
\* returns an error, Do returns that error, the options after it are not
\* applied and the transport is not invoked during the call.
C5_OptionErrorFailsFast ==
    (call.kind = "Do" /\ call.url.valid /\ passes > 0
        /\ \E i \in 1..Len(reqOpts \o call.opts) : (reqOpts \o call.opts)[i].op = "Custom")
    => /\ wire = <<>>
       /\ resp = NoResp
       /\ result = <<>>
       /\ err.kind = "option" /\ err.at = passes
       /\ applied = SubSeq(reqOpts \o call.opts, 1, FirstFailing(reqOpts \o call.opts))

C5_Witness ==
    /\ pc = "done" /\ call.kind = "Do" /\ call.url.valid
    /\ reqOpts = <<FailingOpt>> /\ call.opts = <<SetHeaderOpt("x-a", "1")>>
    /\ applied = <<FailingOpt>> /\ err.kind = "option" /\ wire = <<>>

\* C8 as stated: at the end of every Do call exactly one of the result and
\* the error is non-null.
C8_ExactlyOneNonNull ==
    (pc = "done" /\ call.kind = "Do") => ((result # <<>>) <=> (err = NoErr))

\* C8, amended: at the end of every Do call the result and the error are
\* never both non-null; both are null only after a 2xx response whose
\* decoded body is empty.
C8_NeverBothNonNull ==
    (pc = "done" /\ call.kind = "Do")
    => /\ ~(result # <<>> /\ err # NoErr)
       /\ (result = <<>> /\ err = NoErr =>
             /\ resp.kind = "response" /\ resp.StatusCode \in 200..299
             /\ Decoded(resp, <<>>))

C8_Witness ==
    /\ pc = "done" /\ call.kind = "Do" /\ passes = 2
    /\ result = <<>> /\ err = NoErr

\* C10: DownloadFile runs the retry pipeline of Do: a failure classified
\* Retry is attempted again while delays are left.
C10_DownloadRetried ==
    (pc = "done" /\ call.kind = "DownloadFile" /\ retrier.set
        /\ Classify(retrier.class, err) = "Retry")
    => passes = Len(retrier.backoff) + 1

\* C22: the attempts of a call follow one another. Attempt k+1 starts only
\* when attempt k has returned and was classified Retry and the k-th delay
\* has been waited: the delays waited are the first ones of the backoff
\* sequence, in its order, one per retry.
C22_AttemptsSequential ==
    (call.kind = "Do" /\ retrier.set)
    => /\ Len(slept) <= Len(retrier.backoff)
       /\ slept = SubSeq(retrier.backoff, 1, Len(slept))
       /\ Len(slept) = retries
       /\ (pc = "work" => passes = Len(slept))
       /\ (pc \in {"sleep", "done"} => passes = Len(slept) + 1)
       /\ (pc = "work" /\ passes > 0 => Classify(retrier.class, err) = "Retry")
       /\ (pc = "sleep" => Classify(retrier.class, err) = "Retry")

C22_Witness ==
    /\ call.kind = "Do" /\ pc = "work" /\ passes = 2
    /\ retrier.class = "RetryClassifier" /\ retrier.backoff = <<1, 2>>
    /\ slept = <<1, 2>> /\ err.kind = "transport" /\ err.temporary

\* C14: a call in progress writes no field of the client: the timeout, the
\* default options and the retrier are the same after each of its steps.
C14_ConfigReadOnlyInCalls ==
    [][pc # "idle" => UNCHANGED <<retrier, reqOpts, Timeout>>]_vars

\* C15: under the classifier SetRetry installs, with delays left, an
\* attempt is retried if and only if it ended in a transport error flagged
\* temporary; every other error ends the call.
C15_RetryIffTemporary ==
    (call.kind = "Do" /\ retrier.set /\ retrier.class = "RetryClassifier"
        /\ pc \in {"sleep", "done"} /\ err # NoErr
        /\ passes <= Len(retrier.backoff))
    => (pc = "sleep" <=> (err.kind = "transport" /\ err.temporary))

\* C16: an attempt of Do or of DownloadFile that reached the transport ends
\* in an HTTPError exactly when the transport returned a response whose
\* status code is below 200 or at least 300, and the HTTPError carries that
\* code; a failure of the transport is returned as the transport's error.
C16_HTTPErrorIffBadStatus ==
    (passes > 0 /\ pc \in {"sleep", "done"})
    => /\ (err.kind = "http" <=>
             (resp.kind = "response"
                /\ (resp.StatusCode < 200 \/ resp.StatusCode >= 300)))
       /\ (err.kind = "http" => err.code = resp.StatusCode)
       /\ (resp.kind = "error" =>
             /\ err.kind = "transport"
             /\ err.msg = resp.msg /\ err.temporary = resp.temporary)

C16_Witness ==
    /\ pc = "done" /\ call.kind = "DownloadFile"
    /\ resp.kind = "response" /\ resp.StatusCode = 300
    /\ err.kind = "http" /\ err.code = 300

\* C19: an option error is never retried: under every retrier a Do call in
\* which an option fails ends after one pass over the options, without a
\* backoff wait.
C19_OptionErrorNeverRetried ==
    (call.kind = "Do" /\ retrier.set /\ pc \in {"sleep", "done"}
        /\ err.kind = "option")
    => pc = "done" /\ passes = 1 /\ slept = <<>>

\* C20: every response body the transport handed to an attempt is closed
\* when the attempt returns, whatever its exit path: between the attempts
\* of a call, and after it, no response body is open.
C20_ResponseBodiesClosed == open = 0

C20_Witness ==
    /\ call.kind = "Do" /\ pc = "sleep" /\ passes = 2
    /\ resp.kind = "response" /\ err.kind = "gzip"
    /\ open = 0

C20_WitnessDownload ==
    /\ call.kind = "DownloadFile" /\ pc = "done"
    /\ resp.kind = "response" /\ err.kind = "create"
    /\ open = 0

\* C26: DownloadFile touches its destination only after a 2xx response.
\* When the URL is refused, an option fails, the transport fails or the
\* status is outside 200-299, the destination is as it was before the call;
\* when DownloadFile returns nil the destination holds the bytes of the
\* response body.
C26_DestinationOnlyAfter2xx ==
    (call.kind = "DownloadFile" /\ pc = "done")
    => /\ (resp.kind # "response" \/ resp.StatusCode < 200 \/ resp.StatusCode > 299
             => file = call.dest)
       /\ (err.kind \in {"url", "option", "transport", "http"} => file = call.dest)
       /\ (err = NoErr =>
             /\ resp.kind = "response" /\ resp.StatusCode \in 200..299
             /\ file = [exists |-> TRUE, data |-> resp.body])

C26_Witness ==
    /\ call.kind = "DownloadFile" /\ pc = "done"
    /\ call.dest = [exists |-> TRUE, data |-> <<0, 0>>]
    /\ resp.kind = "response" /\ resp.StatusCode = 300
    /\ err.kind = "http" /\ file = call.dest

C26_WitnessWritten ==
    /\ call.kind = "DownloadFile" /\ pc = "done"
    /\ call.dest = [exists |-> TRUE, data |-> <<0, 0>>]
    /\ err = NoErr /\ resp.body = <<1>> /\ file = [exists |-> TRUE, data |-> <<1>>]

------------------------------------------------------------------------
\* SpecOptions: the request options. Every list of the options of the
\* model as defaults and as per-call options, with and without a retry,
\* against a transport that fails once or answers 200.

PlainURL == [valid |-> TRUE, query |-> <<>>]
OptionOutcomes ==
    { TransportError(TRUE, <<"i/o", "timeout">>),
      Response(200, <<"OK">>, "", <<1>>, FALSE) }
OptionRetriers == {NoRetrier, NewRetrier(<<1>>, "DefaultClassifier")}

NextOptions ==
    \/ \E opts \in OptLists(Options) : SetDefaultReqOpts(opts)
    \/ \E r \in OptionRetriers : SetRetrier(r)
    \/ \E u \in {QueryURL, PlainURL}, opts \in OptLists(Options) : Do("POST", u, <<1>>, opts)
    \/ DoDirect(OptionOutcomes)
    \/ Work(OptionOutcomes)
    \/ RunSleep
    \/ \E u \in {QueryURL, PlainURL}, opts \in OptLists(Options) : DownloadFile(u, opts, NoFile)
    \/ Download(OptionOutcomes)
    \/ Return

SpecOptions == Init /\ [][NextOptions]_vars

\* C6: every attempt of Do and of DownloadFile applies the defaults, in the
\* order SetDefaultReqOpts got them, and then the per-call options, in the
\* order the call got them (up to the first option that fails).
C6_DefaultsBeforePerCall ==
    (passes > 0 /\ call.url.valid)
    => /\ Len(applied) <= Len(reqOpts) + Len(call.opts)
       /\ applied = SubSeq(reqOpts \o call.opts, 1, Len(applied))
       /\ (err.kind # "option" => Len(applied) = Len(reqOpts) + Len(call.opts))

C6_Witness ==
    /\ pc = "done" /\ call.kind = "Do" /\ passes = 2
    /\ reqOpts = <<SetHeaderOpt("x-a", "1")>>
    /\ call.opts = <<SetHeaderOpt("X-A", "2")>>
    /\ applied = <<SetHeaderOpt("x-a", "1"), SetHeaderOpt("X-A", "2")>>
    /\ wire[2].header["X-A"] = <<"2">>

C6_WitnessDownload ==
    /\ pc = "done" /\ call.kind = "DownloadFile"
    /\ Len(reqOpts) = 1 /\ Len(call.opts) = 1 /\ reqOpts # call.opts
    /\ applied = reqOpts \o call.opts

\* The values the query options and the URLs of the model use
QueryValues == {"0", "1", "2"}
\* How often the query raw holds the pair k=v
CountIn(raw, k, v) ==
    Cardinality({i \in 1..Len(raw) : raw[i].ok /\ raw[i].key = k /\ raw[i].value = v})
\* How often the SetQuery options of opts add the pair k=v
RECURSIVE CountAdded(_, _, _)
CountAdded(opts, k, v) ==
    IF opts = <<>> THEN 0
    ELSE (IF Head(opts).op = "SetQuery"
          THEN Cardinality({j \in 1..Len(Head(opts).values[k]) : Head(opts).values[k][j] = v})
          ELSE 0)
         + CountAdded(Tail(opts), k, v)
\* The places of opts that set the header K
SetsOf(opts, K) ==
    {i \in 1..Len(opts) : opts[i].op = "SetHeader" /\ CanonicalMIMEHeaderKey(opts[i].key) = K}
Last(S) == CHOOSE i \in S : \A j \in S : j <= i

\* C7: in the request an attempt sends, a header holds only the value of
\* the last SetHeader for its key, and the query holds every pair of the
\* URL and every pair every SetQuery added.
C7_HeaderOverwritesQueryAdds ==
    (Len(wire) > 0) =>
    LET req == wire[Len(wire)]
    IN /\ \A K \in HeaderKeys :
            req.header[K] = IF SetsOf(applied, K) = {} THEN <<>>
                            ELSE <<applied[Last(SetsOf(applied, K))].value>>
       /\ \A k \in QueryKeys, v \in QueryValues :
            CountIn(req.query, k, v) = CountIn(call.url.query, k, v) + CountAdded(applied, k, v)

C7_Witness ==
    /\ Len(wire) > 0 /\ call.url = QueryURL
    /\ applied = <<SetQueryOpt([NoValues EXCEPT !["a"] = <<"1">>]),
                   SetQueryOpt([NoValues EXCEPT !["a"] = <<"2">>])>>
    /\ wire[Len(wire)].query = <<Segment("a", "0"), Segment("a", "1"), Segment("a", "2")>>

C7_WitnessHeader ==
    /\ Len(wire) > 0
    /\ applied = <<SetHeaderOpt("X-A", "2"), SetHeaderOpt("x-a", "1")>>
    /\ wire[Len(wire)].header["X-A"] = <<"1">>

\* C21: every attempt of a Do call sends the request the first attempt
\* sent: the method, the body bytes, the headers and the query string are
\* built anew from the call's arguments and options in each attempt, so a
\* SetQuery adds its values once, not once more per retry.
C21_SameRequestEveryAttempt ==
    (call.kind = "Do" /\ Len(wire) > 0)
    => /\ \A i \in 1..Len(wire) : wire[i] = wire[1]
       /\ wire[1].method = call.method
       /\ wire[1].body = call.body
       /\ \A k \in QueryKeys, v \in QueryValues :
            CountIn(wire[Len(wire)].query, k, v)
              = CountIn(call.url.query, k, v) + CountAdded(reqOpts \o call.opts, k, v)

C21_Witness ==
    /\ call.kind = "Do" /\ pc = "done" /\ passes = 2 /\ Len(wire) = 2
    /\ call.url = QueryURL
    /\ call.opts = <<SetQueryOpt([NoValues EXCEPT !["a"] = <<"1">>])>>
    /\ wire[1].query = <<Segment("a", "0"), Segment("a", "1")>>
    /\ wire[2] = wire[1]

------------------------------------------------------------------------
\* SpecGzip: response decoding. Every body of the model under every
\* Content-Encoding, to a caller that asks for gzip and to one that does not.

\* The bodies a server may send: plain payloads, their gzip streams, a
\* stream cut after its header and streams with a wrong trailer
Bodies ==
    Payloads \cup {Compress(X) : X \in Payloads}
        \cup {GzipHeader} \cup {GzipHeader \o X \o <<1, 0>> : X \in Payloads \ {<<>>}}
GzipOutcomes ==
    { TransportError(TRUE, <<"i/o", "timeout">>) }
    \cup { Response(200, <<"OK">>, e, b, FALSE) : e \in {"", "gzip", "deflate"}, b \in Bodies }
    \cup { Response(200, <<"OK">>, e, <<>>, TRUE) : e \in {"", "gzip"} }
AcceptGzip == SetHeaderOpt("accept-encoding", "gzip")
GzipOptLists == {<<>>, <<AcceptGzip>>}

NextGzip ==
    \/ \E opts \in GzipOptLists : SetDefaultReqOpts(opts)
    \/ \E r \in OptionRetriers : SetRetrier(r)
    \/ \E opts \in GzipOptLists : Do("POST", PlainURL, <<1>>, opts)
    \/ DoDirect(GzipOutcomes)
    \/ Work(GzipOutcomes)
    \/ RunSleep
    \/ Return

SpecGzip == Init /\ [][NextGzip]_vars

\* C9: a 2xx response whose Content-Encoding is gzip and whose body is the
\* gzip stream of X makes Do return X, as a response carrying X itself
\* does, whatever the caller asked for; a response without the gzip signal
\* is returned byte for byte.
C9_GzipTransparent ==
    (pc = "done" /\ call.kind = "Do" /\ resp.kind = "response"
        /\ resp.StatusCode \in 200..299 /\ ~resp.readErr)
    => /\ (resp.encoding = "gzip" =>
             \A X \in Payloads : resp.body = Compress(X) => result = X /\ err = NoErr)
       /\ (resp.encoding # "gzip" => result = resp.body /\ err = NoErr)

C9_Witness ==
    /\ pc = "done" /\ call.kind = "Do" /\ applied = <<>>
    /\ resp.kind = "response" /\ resp.encoding = "gzip"
    /\ resp.body = Compress(<<1, 0>>) /\ result = <<1, 0>> /\ err = NoErr

------------------------------------------------------------------------
\* SpecCancel: the pipeline with a caller that cancels the client's context
\* during a call.

NextCancel ==
    \/ \E r \in Retriers \cup {NoRetrier} : SetRetrier(r)
    \/ Do("POST", PlainURL, <<1>>, <<>>)
    \/ DoDirect(PipelineOutcomes)
    \/ Work(PipelineOutcomes)
    \/ RunSleep
    \/ Cancel
    \/ Return

SpecCancel == Init /\ [][NextCancel]_vars

\* C13: once the context given to the client is cancelled during a Do call,
\* the next step of the call ends it with a cancellation error: no attempt
\* is started and no backoff delay is waited.
C13_CancelEndsCall ==
    [][(ctx = "done" /\ call.kind = "Do" /\ pc \in {"do", "work", "sleep"})
         => /\ passes' = passes /\ slept' = slept
            /\ pc' = "done" /\ err'.kind = "canceled"]_vars

------------------------------------------------------------------------
\* SpecTerm: the retry loop with a scheduler that lets a call in progress
\* take its next step: an attempt returns, a sleep ends.

TermOutcomes ==
    { TransportError(TRUE, <<"i/o", "timeout">>),
      TransportError(FALSE, <<"connection", "refused">>),
      TransportError(FALSE, <<"stream", "error", "PROTOCOL_ERROR">>),
      Response(500, <<"Bad">>, "", <<>>, FALSE),
      Response(200, <<"OK">>, "", <<1>>, FALSE),
      Response(200, <<"OK">>, "gzip", <<1>>, FALSE) }

NextTerm ==
    \/ \E r \in Retriers \cup {NoRetrier} : SetRetrier(r)
    \/ \E opts \in OptLists({FailingOpt}) : Do("POST", PlainURL, <<1>>, opts)
    \/ DoDirect(TermOutcomes)
    \/ Work(TermOutcomes)
    \/ RunSleep
    \/ Return

SpecTerm ==
    /\ Init /\ [][NextTerm]_vars
    /\ WF_vars(DoDirect(TermOutcomes))
    /\ WF_vars(Work(TermOutcomes))
    /\ WF_vars(RunSleep)

\* The number of attempts of a call is bounded by its backoff sequence
AttemptsBounded ==
    (call.kind = "Do" /\ retrier.set)
    => /\ passes <= Len(retrier.backoff) + 1
       /\ (pc = "sleep" =>
             Classify(retrier.class, err) = "Retry" /\ passes <= Len(retrier.backoff))
       /\ (pc = "done" =>
             \/ Classify(retrier.class, err) \in {"Succeed", "Fail"}
             \/ passes = Len(retrier.backoff) + 1)

\* C23: every Do call ends, given that each attempt and each sleep ends:
\* with a backoff sequence of length N it makes at most N+1 attempts, goes
\* on only after an attempt classified Retry, and returns the outcome of
\* attempt N+1 whatever its class.
C23_CallTerminates ==
    /\ []AttemptsBounded
    /\ (call.kind = "Do") ~> (pc = "done")

C23_Witness ==
    /\ call.kind = "Do" /\ pc = "done" /\ Len(retrier.backoff) = 2 /\ passes = 3
    /\ Classify(retrier.class, err) = "Retry"

------------------------------------------------------------------------
\* SpecClassify: the two classifiers of the repository, each installed in
\* turn, against transport errors of every flag and text and against
\* status errors.

ErrorTexts ==
    { <<"connection", "refused">> }
    \cup { <<"stream", "error", HTTP2RetriableError[i]>> : i \in 1..Len(HTTP2RetriableError) }
ClassifyOutcomes ==
    { TransportError(t, m) : t \in BOOLEAN, m \in ErrorTexts }
    \cup { Response(500, st, "", <<>>, FALSE) : st \in {<<"Bad">>, <<"STREAM_CLOSED">>} }
    \cup { Response(200, <<"OK">>, "", <<1>>, FALSE) }
ClassifyRetriers ==
    { NewRetrier(b, cl) : b \in Backoffs, cl \in {"RetryClassifier", "Retry"} }

NextClassify ==
    \/ \E r \in ClassifyRetriers : SetRetrier(r)
    \/ Do("POST", PlainURL, <<1>>, <<>>)
    \/ DoDirect(ClassifyOutcomes)
    \/ Work(ClassifyOutcomes)
    \/ RunSleep
    \/ Return

SpecClassify == Init /\ [][NextClassify]_vars

\* err.Error() names a stream reset
StreamReset(e) ==
    \E w \in {"CONNECT_ERROR", "PROTOCOL_ERROR", "STREAM_CLOSED"} : Contains(e.msg, w)

\* C24: on the error of every attempt the extended classifier and the
\* basic ones agree, but for an error that is not temporary and whose text
\* holds CONNECT_ERROR, PROTOCOL_ERROR or STREAM_CLOSED: that one is Retry
\* for the extended classifier and Fail for the basic ones. No error is
\* Succeed for all.
C24_ExtendedDiffersOnStreamReset ==
    LET ext == RetryClassifier_Classify(err)
        basic == Retry_Classify(err)
    IN /\ basic = retryClassifer_Classify(err)
       /\ (err = NoErr => ext = "Succeed" /\ basic = "Succeed")
       /\ (err # NoErr /\ ~err.temporary /\ StreamReset(err)
             => ext = "Retry" /\ basic = "Fail")
       /\ (err # NoErr /\ (err.temporary \/ ~StreamReset(err)) => ext = basic)
       /\ (err # NoErr /\ err.temporary => basic = "Retry")
       /\ (err # NoErr /\ ~err.temporary /\ ~StreamReset(err) => basic = "Fail")

C24_Witness ==
    /\ call.kind = "Do" /\ pc = "done" /\ passes = 1
    /\ retrier.set /\ retrier.class = "Retry"
    /\ err.kind = "transport" /\ ~err.temporary /\ Contains(err.msg, "STREAM_CLOSED")

------------------------------------------------------------------------
\* SpecCodec: the codec wrappers. Every body and every result target of the
\* model, with and without a retrier, against a transport that fails or
\* answers with a document, an empty body or a body that does not decode.

\* A result target that held a value before the call
Filled == [set |-> TRUE, data |-> <<0, 0>>]
\* Response bodies: none, a document, a syntax error, a type error
Documents == {<<>>, <<1>>, <<0>>, <<1, 0>>}
CodecOutcomes ==
    { TransportError(TRUE, <<"i/o", "timeout">>),
      Response(500, <<"Bad">>, "", <<1>>, FALSE) }
    \cup { Response(200, <<"OK">>, "", b, FALSE) : b \in Documents }
    \cup { Response(200, <<"OK">>, "gzip", b, FALSE) : b \in {Compress(<<1>>), <<1>>} }
CodecRetriers ==
    {NoRetrier, NewRetrier(<<1>>, "RetryClassifier"), NewRetrier(<<1>>, "DefaultClassifier")}
\* Options of the caller that set a Content-Type of their own
CodecOptLists == {<<>>, <<SetTypeForm>>, <<SetTypeJSON>>}

NextCodec ==
    \/ \E opts \in CodecOptLists : SetDefaultReqOpts(opts)
    \/ \E r \in CodecRetriers : SetRetrier(r)
    \/ \E body \in WrapperBodies, res \in BOOLEAN, before \in {NoValue, Filled},
            opts \in CodecOptLists :
          JSONClient_Do("POST", PlainURL, body, res, IF res THEN before ELSE NoValue, opts)
    \/ \E body \in WrapperBodies, res \in BOOLEAN, before \in {NoValue, Filled},
            opts \in CodecOptLists :
          XMLClient_Do("POST", PlainURL, body, res, IF res THEN before ELSE NoValue, opts)
    \/ DoDirect(CodecOutcomes)
    \/ Work(CodecOutcomes)
    \/ RunSleep
    \/ WrapperDecode
    \/ WrapperReturn

SpecCodec == Init /\ [][NextCodec]_vars

\* C11: when the wrapper cannot marshal the request body, its Do returns
\* the marshal error at once: Client.Do is not called, no attempt is made,
\* nothing reaches the transport and the result target is not written.
C11_MarshalErrorNoAttempt ==
    (wpc = "done" /\ wcall.body = "chan")
    => /\ werr.kind = "marshal"
       /\ doCalls = 0 /\ pc = "idle" /\ passes = 0 /\ wire = <<>>
       /\ target = wcall.before

C11_Witness ==
    /\ wpc = "done" /\ wcall.codec = "xml" /\ wcall.body = "chan"
    /\ retrier.set /\ werr.kind = "marshal" /\ doCalls = 0 /\ wire = <<>>

\* C12: a decode failure is never retried. An attempt that got a 2xx
\* response whose body cannot be decompressed ends the call with that
\* error, without a backoff wait and without another attempt, whatever the
\* classifier; and a wrapper that cannot unmarshal the body it received
\* returns that error after the one call of Client.Do it made.
C12_DecodeFailureNeverRetried ==
    /\ (call.kind = "Do" /\ retrier.set /\ pc \in {"sleep", "done"}
          /\ resp.kind = "response" /\ resp.StatusCode \in 200..299
          /\ err.kind = "gzip")
       => pc = "done" /\ passes = 1 /\ slept = <<>>
    /\ (wpc = "done" /\ werr.kind = "unmarshal")
       => pc = "done" /\ doCalls = 1 /\ werr.at = passes

\* C17: after a successful Client.Do the wrapper unmarshals the response
\* into the result target exactly when the target is non-nil and the body
\* is non-empty; otherwise it returns nil and the target keeps its value;
\* after an error of Client.Do it returns that error and the target keeps
\* its value.
C17_UnmarshalIffTargetAndBody ==
    (wpc = "done" /\ doCalls = 1)
    => /\ (err # NoErr => werr = err /\ target = wcall.before)
       /\ (err = NoErr /\ ~(wcall.result /\ result # <<>>)
             => werr = NoErr /\ target = wcall.before)
       /\ (err = NoErr /\ wcall.result /\ result # <<>>
             => /\ (result = <<1>> => werr = NoErr)
                /\ (werr = NoErr => target = [set |-> TRUE, data |-> result])
                /\ (werr # NoErr => werr.kind = "unmarshal"))

C17_Witness ==
    /\ wpc = "done" /\ wcall.codec = "json" /\ wcall.result
    /\ wcall.before = Filled /\ passes = 2
    /\ err = NoErr /\ result = <<1>>
    /\ werr = NoErr /\ target = [set |-> TRUE, data |-> <<1>>]

C17_WitnessEmptyBody ==
    /\ wpc = "done" /\ wcall.result /\ wcall.before = Filled
    /\ err = NoErr /\ result = <<>> /\ werr = NoErr /\ target = Filled

\* The Content-Type of each wrapper
ContentTypeOf(codec) ==
    IF codec = "json" THEN "application/json; charset=UTF-8"
    ELSE "application/xml; charset=UTF-8"

\* C25: every request a wrapper call sends carries the wrapper's
\* Content-Type: its option is the last one applied, after the defaults and
\* the caller's options, and overrides a Content-Type they set.
C25_WrapperContentType ==
    (wpc # "idle" /\ Len(wire) > 0)
    => /\ \A i \in 1..Len(wire) :
            wire[i].header["Content-Type"] = <<ContentTypeOf(wcall.codec)>>
       /\ applied = reqOpts \o call.opts
       /\ applied[Len(applied)].key = "Content-Type"
       /\ applied[Len(applied)].value = ContentTypeOf(wcall.codec)

C25_Witness ==
    /\ wpc = "done" /\ wcall.codec = "xml" /\ Len(wire) = 2
    /\ applied = <<SetTypeJSON, SetTypeXML>>
    /\ wire[2].header["Content-Type"] = <<"application/xml; charset=UTF-8">>

C25_WitnessDefault ==
    /\ wpc = "done" /\ wcall.codec = "json" /\ reqOpts = <<SetTypeForm>>
    /\ Len(wire) > 0
    /\ wire[1].header["Content-Type"] = <<"application/json; charset=UTF-8">>

------------------------------------------------------------------------
\* SpecConcurrent: two goroutines call the client at the same time, each
\* with options that carry its name, after the defaults were set.

DefaultLists == OptLists({SetQueryOpt([NoValues EXCEPT !["a"] = <<"1">>])})
OwnLists(g) == OptLists({SetHeaderOpt("x-a", g)})

NextConcurrent ==
    \/ \E opts \in DefaultLists : SetDefaultReqOpts(opts)
    \/ \E g \in Goroutines : \E opts \in OwnLists(g) : GoCall(g, opts)
    \/ \E g \in Goroutines : GoAppend(g)
    \/ \E g \in Goroutines : GoRange(g)
    \/ \E g \in Goroutines : GoReturn(g)

SpecConcurrent == Init /\ [][NextConcurrent]_vars

\* The options a call applied are the first ones of the defaults followed
\* by its own options, and all of them once its loop has ended
AppliedOwn(c) ==
    LET all == reqOpts \o c.opts
    IN /\ Len(c.applied) <= Len(all)
       /\ c.applied = SubSeq(all, 1, Len(c.applied))
       /\ c.pc = "done" => c.applied = all

\* C27: under every interleaving of concurrent calls, each call applies
\* exactly the defaults followed by its own options, never an option of
\* another call, and no step of a call changes the default option list or
\* the array behind it.
C27_OptionsStayCallLocal ==
    /\ [](\A g \in Goroutines : calls[g].pc \in {"range", "done"} => AppliedOwn(calls[g]))
    /\ [][(\E g \in Goroutines : calls[g].pc # "idle")
            => UNCHANGED <<reqOpts, spare, backing>>]_vars

\* Two calls with options of their own overlap, with defaults set, and one
\* of them has applied all its options while the other is in its loop
C27_Witness ==
    /\ reqOpts # <<>>
    /\ calls["1"].pc = "done"
    /\ calls["2"].pc = "range"
    /\ calls["1"].opts # <<>>
    /\ calls["2"].opts # <<>>
    /\ calls["2"].applied # <<>>

------------------------------------------------------------------------
\* SpecLog: RoundTrip of a LogTransport, called with requests that have a
\* body and GetBody (what http.NewRequest makes of a strings.Reader), no
\* body and no GetBody (http.NewRequest with a nil body), and a GetBody
\* that fails.

LogRequests ==
    { TransportReq(b, "ok") : b \in Payloads }
    \cup { TransportReq(<<>>, "nil") }
    \cup { TransportReq(b, "err") : b \in Payloads }

NextLog ==
    \/ \E req \in LogRequests, out \in PipelineOutcomes : LogTransport_RoundTrip(req, out)
    \/ RoundTripReturn

SpecLog == Init /\ [][NextLog]_vars

\* C28: RoundTrip is transparent for every request, with or without a
\* body: the wrapped transport is invoked exactly once with the request,
\* whose body is unread, and its answer is returned unchanged; logging never
\* makes the call fail.
C28_RoundTripTransparent ==
    rt.pc # "idle" =>
        /\ rt.pc = "done"
        /\ rt.sent = <<rt.req>>
        /\ rt.sent[1].read = 0
        /\ rt.ret = rt.out

\* For the requests whose GetBody works, RoundTrip is transparent
C28_TransparentWithGetBody ==
    (rt.pc # "idle" /\ rt.req.getBody = "ok") =>
        /\ rt.pc = "done"
        /\ rt.sent = <<rt.req>>
        /\ rt.sent[1].read = 0
        /\ rt.ret = rt.out

====
